---- MODULE Spec2Model ----
(***************************************************************************)
(* Model of backend/routes/paperRoutes.js: the GET /generate handler that *)
(* groups the questions of the database by marks, draws the four parts of *)
(* the paper without replacement (pickUnique over a per-call used-set)    *)
(* and reports wanted / available / picked counts.                       *)
(***************************************************************************)
EXTENDS Integers, Sequences, FiniteSets, TLC

VARIABLES
    db,            \* the Question collection, a sequence of documents
    rng,           \* state of the process-wide generator behind Math.random
    pc,            \* per invocation: "start", "awaiting", "done"
    allQuestions,  \* per invocation: result of the awaited Question.find().lean()
    usedIds,       \* per invocation: the closure's Set of used id strings
    buckets,       \* per invocation: qByMarks
    calls,         \* per invocation: log of the pickUnique calls made
    concurrent,    \* per invocation: invocations suspended on the await when it resumed
    response       \* per invocation: what res.status(..).json(..) sent

vars == <<db, rng, pc, allQuestions, usedIds, buckets, calls, concurrent, response>>

-----------------------------------------------------------------------------
(* Bounds *)

MaxN2 == 16
MaxN3 == 5
MaxN5 == 7
MaxOther == 1
RandMod == 3
NumInvocations == 2
ConcMaxD == 1
PickMaxN == 2
MaxCalls == 2

Invocations == 1..NumInvocations

-----------------------------------------------------------------------------
(* JavaScript values and conversions *)

NumV(n) == [kind |-> "number", num |-> n, str |-> ""]
StrV(s) == [kind |-> "string", num |-> 0, str |-> s]
Undefined == [kind |-> "undefined", num |-> 0, str |-> ""]

NaN == [nan |-> TRUE, val |-> 0]
Num(n) == [nan |-> FALSE, val |-> n]

\* Number(v): a number is itself, a numeric string is parsed, anything else is NaN
Number(v) ==
    CASE v.kind = "number" -> Num(v.num)
      [] v.kind = "string" ->
            CASE v.str = "2" -> Num(2)
              [] v.str = "3" -> Num(3)
              [] v.str = "5" -> Num(5)
              [] v.str = ""  -> Num(0)
              [] OTHER       -> NaN
      [] OTHER -> NaN

\* x === n for a Number result x and a numeric literal n
StrictEq(x, n) == ~x.nan /\ x.val = n

\* v || 0 : the falsy values (0, "", undefined) are replaced by 0
OrZero(v) ==
    IF \/ v.kind = "undefined"
       \/ (v.kind = "number" /\ v.num = 0)
       \/ (v.kind = "string" /\ v.str = "")
    THEN NumV(0) ELSE v

\* s + x on numbers: NaN is absorbing
Plus(s, x) == IF s.nan \/ x.nan THEN NaN ELSE Num(s.val + x.val)

\* String(q._id): the decimal digits of the identifier
RECURSIVE String(_)
String(n) == IF n < 10 THEN <<n>> ELSE Append(String(n \div 10), n % 10)

Min(a, b) == IF a < b THEN a ELSE b
Max(a, b) == IF a > b THEN a ELSE b

\* array.slice(0, end), with JavaScript's treatment of a negative end
Slice0(arr, end) ==
    LET e == IF end < 0 THEN Max(Len(arr) + end, 0) ELSE Min(end, Len(arr))
    IN  SubSeq(arr, 1, e)

-----------------------------------------------------------------------------
(* Math.random: a process-wide generator; a call returns rng / RandMod in  *)
(* [0, 1) and advances the state                                         *)

NextRand(s) == (s + 1) % RandMod

\* Math.floor(Math.random() * (i + 1)) for generator state s
RandIndex(s, n) == (s * n) \div RandMod

-----------------------------------------------------------------------------
(* Helpers of the route *)

Swap(arr, a, b) == [arr EXCEPT ![a] = arr[b], ![b] = arr[a]]

\* the loop of shuffleArray; i and j are the 0-based indices of the code
RECURSIVE ShuffleLoop(_, _, _, _)
ShuffleLoop(arr, i, s, draws) ==
    IF i > 0
    THEN LET j == RandIndex(s, i + 1)
         IN  ShuffleLoop(Swap(arr, i + 1, j + 1), i - 1, NextRand(s), draws + 1)
    ELSE [arr |-> arr, rng |-> s, draws |-> draws]

shuffleArray(array, s) == ShuffleLoop(array, Len(array) - 1, s, 0)

\* pickRandom with slice(0, n) in place of slice(0, Math.max(0, n))
pickRandomNoClamp(array, n, s) ==
    IF Len(array) = 0
    THEN [arr |-> <<>>, rng |-> s, draws |-> 0]
    ELSE LET shuffled == shuffleArray(array, s)
         IN  [shuffled EXCEPT !.arr = Slice0(shuffled.arr, n)]

\* pickRandom with an off-by-one end of the slice
pickRandomOneMore(array, n, s) ==
    IF Len(array) = 0
    THEN [arr |-> <<>>, rng |-> s, draws |-> 0]
    ELSE LET shuffled == shuffleArray(array, s)
         IN  [shuffled EXCEPT !.arr = Slice0(shuffled.arr, Max(0, n) + 1)]

\* pickRandom that returns nothing when fewer than n items are available
pickRandomAllOrNothing(array, n, s) ==
    IF Len(array) < n
    THEN [arr |-> <<>>, rng |-> s, draws |-> 0]
    ELSE LET shuffled == shuffleArray(array, s)
         IN  [shuffled EXCEPT !.arr = Slice0(shuffled.arr, Max(0, n))]

\* pickRandom(array, n), threading the generator state through
pickRandom(array, n, s) ==
    IF Len(array) = 0
    THEN [arr |-> <<>>, rng |-> s, draws |-> 0]
    ELSE LET shuffled == shuffleArray(array, s)
         IN  [shuffled EXCEPT !.arr = Slice0(shuffled.arr, Max(0, n))]

\* the filter with >= in place of ===
filterByMarksAtLeast(all, m) ==
    SelectSeq(all, LAMBDA q : ~Number(q.marks).nan /\ Number(q.marks).val >= m)

\* allQuestions.filter(q => Number(q.marks) === m)
filterByMarks(all, m) == SelectSeq(all, LAMBDA q : StrictEq(Number(q.marks), m))

qByMarks(all) == [m \in {2, 3, 5} |-> filterByMarks(all, m)]

\* the handler without its check for an empty collection
noQuestionsNever(all) == FALSE

\* !allQuestions || allQuestions.length === 0
noQuestions(all) == Len(all) = 0

sectionA_need == [marks |-> 2, count |-> 10]
sectionB_need_part1 == [marks |-> 2, count |-> 5]
sectionB_need_part2 == [marks |-> 3, count |-> 5]
sectionC_need == [marks |-> 5, count |-> 7]

\* a used-set kept at module level, shared by all invocations
usedIdsOfAll == UNION {usedIds[k] : k \in Invocations}

\* let usedIds = new Set()
newUsedIds == {}

\* pickUnique without the filter on the used-set
availableUnfiltered(pool, used) == pool

\* pool.filter(q => !usedIds.has(String(q._id)))
available(pool, used) == SelectSeq(pool, LAMBDA q : String(q._id) \notin used)

IdStrings(qs) == {String(qs[k]._id) : k \in DOMAIN qs}

\* one call of the closure pickUnique(mark, count) on used-set `used`
pickUnique(qbm, used, s, mark, count) ==
    LET pool == IF mark \in DOMAIN qbm THEN qbm[mark] ELSE <<>>
        avail == available(pool, used)
        picked == pickRandom(avail, count, s)
    IN  [mark |-> mark, count |-> count,
         usedBefore |-> used,
         candidates |-> avail,
         picked |-> picked.arr,
         usedAfter |-> used \cup IdStrings(picked.arr),
         draws |-> picked.draws,
         rng |-> picked.rng,
         outcome |-> "returned"]

\* the reduce without the Number conversion: a string marks value spoils the sum
RECURSIVE sumMarksRaw(_)
sumMarksRaw(qs) ==
    IF Len(qs) = 0 THEN Num(0)
    ELSE Plus(sumMarksRaw(SubSeq(qs, 1, Len(qs) - 1)),
              IF qs[Len(qs)].marks.kind = "number"
              THEN Num(qs[Len(qs)].marks.num) ELSE NaN)

\* arr.reduce((s, q) => s + Number(q.marks || 0), 0)
RECURSIVE sumMarks(_)
sumMarks(qs) ==
    IF Len(qs) = 0 THEN Num(0)
    ELSE Plus(sumMarks(SubSeq(qs, 1, Len(qs) - 1)), Number(OrZero(qs[Len(qs)].marks)))

-----------------------------------------------------------------------------
(* The database *)

\* the k-th question of a marks value is stored as a number or as a string
MarkValue(m, k) ==
    IF k % 2 = 1 THEN NumV(m)
    ELSE CASE m = 2 -> StrV("2") [] m = 3 -> StrV("3") [] OTHER -> StrV("5")

\* marks values that belong to no section
OtherValue(k) ==
    CASE k % 3 = 1 -> NumV(4)
      [] k % 3 = 2 -> StrV("five")
      [] OTHER     -> Undefined

MkDb(n2, n3, n5, nx) ==
    [k \in 1..(n5 + nx + n2 + n3) |->
        [_id |-> k,
         marks |-> IF k <= n5 THEN MarkValue(5, k)
                   ELSE IF k <= n5 + nx THEN OtherValue(k - n5)
                   ELSE IF k <= n5 + nx + n2 THEN MarkValue(2, k - n5 - nx)
                   ELSE MarkValue(3, k - n5 - nx - n2)]]

NoResponse == [status |-> 0, message |-> "", paper |-> <<>>]

InitCommon ==
    /\ rng \in 0..(RandMod - 1)
    /\ pc = [i \in Invocations |-> "start"]
    /\ allQuestions = [i \in Invocations |-> <<>>]
    /\ usedIds = [i \in Invocations |-> {}]
    /\ buckets = [i \in Invocations |-> qByMarks(<<>>)]
    /\ calls = [i \in Invocations |-> <<>>]
    /\ concurrent = [i \in Invocations |-> {}]
    /\ response = [i \in Invocations |-> NoResponse]

Init ==
    /\ \E n2 \in 0..MaxN2, n3 \in 0..MaxN3, n5 \in 0..MaxN5, nx \in 0..MaxOther :
          db = MkDb(n2, n3, n5, nx)
    /\ InitCommon

-----------------------------------------------------------------------------
(* GET /generate *)

\* the handler starts and suspends on await Question.find().lean()
Find(i) ==
    /\ pc[i] = "start"
    /\ pc' = [pc EXCEPT ![i] = "awaiting"]
    /\ allQuestions' = [allQuestions EXCEPT ![i] = db]
    /\ UNCHANGED <<db, rng, usedIds, buckets, calls, concurrent, response>>

\* the awaited query rejects: the catch block answers 500
FindFails(i) ==
    /\ pc[i] = "start"
    /\ pc' = [pc EXCEPT ![i] = "done"]
    /\ response' = [response EXCEPT ![i] =
          [status |-> 500, message |-> "Server error while generating paper.",
           paper |-> <<>>]]
    /\ UNCHANGED <<db, rng, allQuestions, usedIds, buckets, calls, concurrent>>

\* the handler resumes with an empty result: 404
GenerateEmpty(i) ==
    /\ pc[i] = "awaiting"
    /\ noQuestions(allQuestions[i])
    /\ pc' = [pc EXCEPT ![i] = "done"]
    /\ concurrent' = [concurrent EXCEPT ![i] =
          {k \in Invocations \ {i} : pc[k] = "awaiting"}]
    /\ response' = [response EXCEPT ![i] =
          [status |-> 404, message |-> "No questions found in database.",
           paper |-> <<>>]]
    /\ UNCHANGED <<db, rng, allQuestions, usedIds, buckets, calls>>

\* the handler resumes and runs to its return without suspending again
Generate(i) ==
    /\ pc[i] = "awaiting"
    /\ ~noQuestions(allQuestions[i])
    /\ \E qbm \in {qByMarks(allQuestions[i])} :
       \E cA \in {pickUnique(qbm, newUsedIds, rng,
                             sectionA_need.marks, sectionA_need.count)} :
       \E cB1 \in {pickUnique(qbm, cA.usedAfter, cA.rng,
                             sectionB_need_part1.marks, sectionB_need_part1.count)} :
       \E cB2 \in {pickUnique(qbm, cB1.usedAfter, cB1.rng,
                             sectionB_need_part2.marks, sectionB_need_part2.count)} :
       \E cC \in {pickUnique(qbm, cB2.usedAfter, cB2.rng,
                             sectionC_need.marks, sectionC_need.count)} :
       LET
           sectionA == cA.picked
           sectionB_part1 == cB1.picked
           sectionB_part2 == cB2.picked
           sectionC == cC.picked
           sectionB == sectionB_part1 \o sectionB_part2
           totalMarksComputed ==
               Plus(Plus(sumMarks(sectionA), sumMarks(sectionB)), sumMarks(sectionC))
           report ==
               [wanted |-> [sectionA |-> sectionA_need.count,
                            sectionB_part1 |-> sectionB_need_part1.count,
                            sectionB_part2 |-> sectionB_need_part2.count,
                            sectionC |-> sectionC_need.count],
                available |-> [mark2 |-> Len(qbm[2]),
                               mark3 |-> Len(qbm[3]),
                               mark5 |-> Len(qbm[5])],
                pickedCounts |-> [sectionA |-> Len(sectionA),
                                  sectionB_part1 |-> Len(sectionB_part1),
                                  sectionB_part2 |-> Len(sectionB_part2),
                                  sectionC |-> Len(sectionC)]]
           questionPaper ==
               [meta |-> [totalQuestions |->
                              Len(sectionA) + Len(sectionB) + Len(sectionC),
                          totalMarks |-> totalMarksComputed],
                sections |-> [A |-> sectionA,
                              B_part1 |-> sectionB_part1,
                              B_part2 |-> sectionB_part2,
                              B |-> sectionB,
                              C |-> sectionC],
                report |-> report]
       IN  /\ buckets' = [buckets EXCEPT ![i] = qbm]
           /\ calls' = [calls EXCEPT ![i] = <<cA, cB1, cB2, cC>>]
           /\ usedIds' = [usedIds EXCEPT ![i] = cC.usedAfter]
           /\ rng' = cC.rng
           /\ response' = [response EXCEPT ![i] =
                 [status |-> 200, message |-> "", paper |-> <<questionPaper>>]]
    /\ pc' = [pc EXCEPT ![i] = "done"]
    /\ concurrent' = [concurrent EXCEPT ![i] =
          {k \in Invocations \ {i} : pc[k] = "awaiting"}]
    /\ UNCHANGED <<db, allQuestions>>

Request(i) ==
    \/ Find(i)
    \/ FindFails(i)
    \/ GenerateEmpty(i)
    \/ Generate(i)

\* one request served on its own: the handler of invocation 1 runs, no other
\* request is in flight
Next == Request(1)

Spec == Init /\ [][Next]_vars

-----------------------------------------------------------------------------
(* Several requests in flight: the handlers interleave at the await *)

InitConcurrent ==
    /\ \E d2 \in 0..ConcMaxD, d3 \in 0..ConcMaxD, d5 \in 0..ConcMaxD,
          nx \in 0..MaxOther, full \in BOOLEAN :
          db = IF full THEN MkDb(MaxN2 - d2, MaxN3 - d3, MaxN5 - d5, nx)
                       ELSE MkDb(d2, d3, d5, nx)
    /\ InitCommon

NextConcurrent == \E i \in Invocations : Request(i)

SpecConcurrent == InitConcurrent /\ [][NextConcurrent]_vars

-----------------------------------------------------------------------------
(* pickUnique on its own: the closure of one invocation, called with any  *)
(* mark and any count                                                     *)

PickMarks == {2, 3, 4}
PickCounts == (-1)..PickMaxN

InitPick ==
    /\ \E d2 \in 0..PickMaxN, d3 \in 0..PickMaxN :
          db = MkDb(PickMaxN - d2, PickMaxN - d3, 0, 0)
    /\ rng \in 0..(RandMod - 1)
    /\ pc = [i \in Invocations |-> IF i = 1 THEN "awaiting" ELSE "start"]
    /\ allQuestions = [i \in Invocations |-> IF i = 1 THEN db ELSE <<>>]
    /\ usedIds = [i \in Invocations |-> {}]
    /\ buckets = [i \in Invocations |-> qByMarks(allQuestions[i])]
    /\ calls = [i \in Invocations |-> <<>>]
    /\ concurrent = [i \in Invocations |-> {}]
    /\ response = [i \in Invocations |-> NoResponse]

PickCall(i, mark, count) ==
    /\ pc[i] = "awaiting"
    /\ Len(calls[i]) < MaxCalls
    /\ \E r \in {pickUnique(buckets[i], usedIds[i], rng, mark, count)} :
          /\ calls' = [calls EXCEPT ![i] = Append(@, r)]
          /\ usedIds' = [usedIds EXCEPT ![i] = r.usedAfter]
          /\ rng' = r.rng
    /\ UNCHANGED <<db, pc, allQuestions, buckets, concurrent, response>>

NextPick == \E mark \in PickMarks, count \in PickCounts : PickCall(1, mark, count)

SpecPick == InitPick /\ [][NextPick]_vars

-----------------------------------------------------------------------------
(* Properties *)

\* the invocation answered 200 with a question paper
Answered(i) == pc[i] = "done" /\ response[i].status = 200

\* the invocation got the result of its query and ran to its return
Fetched(i) == pc[i] = "done" /\ response[i].status # 500

Paper(i) == response[i].paper[1]

\* the number of documents of `all` whose marks value is m
CountMarks(all, m) ==
    Cardinality({k \in DOMAIN all : StrictEq(Number(all[k].marks), m)})

\* the four result sequences of a paper, one after the other
AllPicked(i) ==
    Paper(i).sections.A \o Paper(i).sections.B_part1
        \o Paper(i).sections.B_part2 \o Paper(i).sections.C

\* C1: after the four pickUnique calls of one /generate run no question
\* identifier appears in more than one of the four result sequences, and none
\* appears twice inside one of them.
C1_NoIdentifierTwice ==
    \A i \in Invocations :
        Answered(i) =>
            \A all4 \in {AllPicked(i)} :
                \A j, k \in DOMAIN all4 :
                    j # k => String(all4[j]._id) # String(all4[k]._id)

\* a run in which every one of the four parts received questions
C1_Witness ==
    \E i \in Invocations :
        /\ Answered(i)
        /\ Len(Paper(i).sections.A) > 0
        /\ Len(Paper(i).sections.B_part1) > 0
        /\ Len(Paper(i).sections.B_part2) > 0
        /\ Len(Paper(i).sections.C) > 0

\* the documents of `all` with marks m whose id string is not in `used`
Unused(all, m, used) ==
    {k \in DOMAIN all :
        StrictEq(Number(all[k].marks), m) /\ String(all[k]._id) \notin used}

\* C2: every request (mark, count) processed by pickUnique returns only
\* items of the bucket for that mark whose identifier was not in the used-set
\* when the request started, and as many as min(count, number of such items).
C2_QuotaRespected ==
    \A i \in Invocations :
        \A c \in DOMAIN calls[i] :
            \A r \in {calls[i][c]} :
            \A free \in {Unused(allQuestions[i], r.mark, r.usedBefore)} :
                /\ \A k \in DOMAIN r.picked :
                      \E f \in free : allQuestions[i][f] = r.picked[k]
                /\ Len(r.picked) = Min(r.count, Cardinality(free))

\* a request that starts with a non-empty used-set and finds fewer unused
\* items than it asks for, but some
C2_Witness ==
    \E i \in Invocations :
        \E c \in DOMAIN calls[i] :
            /\ calls[i][c].usedBefore # {}
            /\ Len(calls[i][c].picked) > 0
            /\ Len(calls[i][c].picked) < calls[i][c].count
            /\ Len(calls[i][c].candidates) < Len(buckets[i][calls[i][c].mark])

\* C3: requests that share a key are served in plan order, the earlier one
\* favoured: with n2 two-mark questions sectionA delivers min(10, n2) and
\* sectionB_part1 delivers min(5, n2 - min(10, n2)); with 12 two-mark,
\* 3 three-mark and 0 five-mark questions the counts are 10, 2, 3, 0.
C3_PlanOrderFavoursEarlier ==
    \A i \in Invocations :
        Answered(i) =>
            \A n2 \in {CountMarks(allQuestions[i], 2)} :
            \A got \in {Paper(i).report.pickedCounts} :
                /\ got.sectionA = Min(10, n2)
                /\ got.sectionB_part1 = Min(5, n2 - Min(10, n2))
                /\ (/\ n2 = 12
                    /\ CountMarks(allQuestions[i], 3) = 3
                    /\ CountMarks(allQuestions[i], 5) = 0)
                   => got = [sectionA |-> 10, sectionB_part1 |-> 2,
                             sectionB_part2 |-> 3, sectionC |-> 0]

\* the run of the example: 12 two-mark, 3 three-mark, no five-mark questions
C3_Witness ==
    \E i \in Invocations :
        /\ Answered(i)
        /\ CountMarks(allQuestions[i], 2) = 12
        /\ CountMarks(allQuestions[i], 3) = 3
        /\ CountMarks(allQuestions[i], 5) = 0

\* C4: in the report of every run the pool size recorded for each mark is the
\* number of input questions with that mark before any allocation, and wanted
\* and pickedCounts of each request are its requested count and the length of
\* its delivered sequence.
C4_ReportCounts ==
    \A i \in Invocations :
        Answered(i) =>
            \A rep \in {Paper(i).report} :
                /\ rep.available.mark2 = CountMarks(allQuestions[i], 2)
                /\ rep.available.mark3 = CountMarks(allQuestions[i], 3)
                /\ rep.available.mark5 = CountMarks(allQuestions[i], 5)
                /\ rep.wanted = [sectionA |-> calls[i][1].count,
                                 sectionB_part1 |-> calls[i][2].count,
                                 sectionB_part2 |-> calls[i][3].count,
                                 sectionC |-> calls[i][4].count]
                /\ rep.pickedCounts.sectionA = Len(Paper(i).sections.A)
                /\ rep.pickedCounts.sectionB_part1 = Len(Paper(i).sections.B_part1)
                /\ rep.pickedCounts.sectionB_part2 = Len(Paper(i).sections.B_part2)
                /\ rep.pickedCounts.sectionC = Len(Paper(i).sections.C)

\* a run in which sectionB_part1 found part of its bucket already used, next
\* to questions of marks values that belong to no bucket
C4_Witness ==
    \E i \in Invocations :
        /\ Answered(i)
        /\ Len(calls[i][2].candidates) < Paper(i).report.available.mark2
        /\ Len(calls[i][2].picked) > 0
        /\ \E k \in DOMAIN allQuestions[i] :
              ~(\E m \in {2, 3, 5} : StrictEq(Number(allQuestions[i][k].marks), m))

\* the pool holds fewer questions of some mark than the plan requests for it
Short(all) ==
    \/ CountMarks(all, 2) < sectionA_need.count + sectionB_need_part1.count
    \/ CountMarks(all, 3) < sectionB_need_part2.count
    \/ CountMarks(all, 5) < sectionC_need.count

\* the answer is a paper that holds every available question of each short
\* mark, with a request of that mark reported as delivered < wanted
ShortageReported(i) ==
    /\ response[i].status = 200
    /\ Len(response[i].paper) = 1
    /\ \A all \in {allQuestions[i]} :
       \A got \in {Paper(i).report.pickedCounts} :
       \A want \in {Paper(i).report.wanted} :
          /\ CountMarks(all, 2) < sectionA_need.count + sectionB_need_part1.count
                => /\ got.sectionA + got.sectionB_part1 = CountMarks(all, 2)
                   /\ \/ got.sectionA < want.sectionA
                      \/ got.sectionB_part1 < want.sectionB_part1
          /\ CountMarks(all, 3) < sectionB_need_part2.count
                => /\ got.sectionB_part2 = CountMarks(all, 3)
                   /\ got.sectionB_part2 < want.sectionB_part2
          /\ CountMarks(all, 5) < sectionC_need.count
                => /\ got.sectionC = CountMarks(all, 5)
                   /\ got.sectionC < want.sectionC

AllEmptyPaper(i) ==
    /\ response[i].status = 200
    /\ Len(response[i].paper) = 1
    /\ Paper(i).sections.A = <<>>
    /\ Paper(i).sections.B_part1 = <<>>
    /\ Paper(i).sections.B_part2 = <<>>
    /\ Paper(i).sections.C = <<>>
    /\ Paper(i).report.available = [mark2 |-> 0, mark3 |-> 0, mark5 |-> 0]
    /\ Paper(i).report.pickedCounts =
          [sectionA |-> 0, sectionB_part1 |-> 0, sectionB_part2 |-> 0, sectionC |-> 0]

Occurrences(b, q) == Cardinality({j \in DOMAIN b : b[j] = q})

\* C8 as stated: the grouping by marks puts every input question in exactly
\* one bucket, the bucket keyed by its own marks value, and the union of all
\* buckets is the input set: no question is lost, whatever its marks value.
C8_Original ==
    \A i \in Invocations :
        Answered(i) =>
            \A k \in DOMAIN allQuestions[i] :
                \E m \in DOMAIN buckets[i] :
                    /\ StrictEq(Number(allQuestions[i][k].marks), m)
                    /\ Occurrences(buckets[i][m], allQuestions[i][k]) = 1
                    /\ \A o \in DOMAIN buckets[i] \ {m} :
                          Occurrences(buckets[i][o], allQuestions[i][k]) = 0

\* C8 amended: the grouping has the three buckets 2, 3 and 5; every input
\* question whose marks value converts to 2, 3 or 5 is exactly once in the
\* bucket of that value and in no other, every bucket holds input questions
\* only, and a question of any other marks value is in no bucket.
C8_GroupingByMarks ==
    \A i \in Invocations :
        Answered(i) =>
            /\ DOMAIN buckets[i] = {2, 3, 5}
            /\ \A k \in DOMAIN allQuestions[i] :
               \A q \in {allQuestions[i][k]} :
               \A m \in DOMAIN buckets[i] :
                  Occurrences(buckets[i][m], q) =
                      IF StrictEq(Number(q.marks), m) THEN 1 ELSE 0
            /\ \A m \in DOMAIN buckets[i] :
               \A j \in DOMAIN buckets[i][m] :
                  \E k \in DOMAIN allQuestions[i] :
                      allQuestions[i][k] = buckets[i][m][j]

\* a grouped collection with questions of 2, 3 and 5 marks, stored as numbers
\* and as strings, and a question of another marks value
C8_Witness ==
    \E i \in Invocations :
        /\ Answered(i)
        /\ \A m \in {2, 3, 5} : Len(buckets[i][m]) > 1
        /\ Len(allQuestions[i])
              > Len(buckets[i][2]) + Len(buckets[i][3]) + Len(buckets[i][5])

\* the counts one run alone delivers from collection `all`
AloneCounts(all) ==
    [sectionA |-> Min(sectionA_need.count, CountMarks(all, 2)),
     sectionB_part1 |->
        Min(sectionB_need_part1.count,
            CountMarks(all, 2) - Min(sectionA_need.count, CountMarks(all, 2))),
     sectionB_part2 |-> Min(sectionB_need_part2.count, CountMarks(all, 3)),
     sectionC |-> Min(sectionC_need.count, CountMarks(all, 5))]

\* C9: the used-set is scoped to one invocation: when invocations interleave
\* at the await, each starts from an empty used-set, the used-set of a request
\* holds the invocation's own earlier picks only, so that an item picked in
\* another invocation is never excluded from its candidates, and each
\* invocation delivers the counts it would deliver alone on the same pool.
C9_UsedSetPerInvocation ==
    \A i \in Invocations :
        Answered(i) =>
            /\ calls[i][1].usedBefore = {}
            /\ \A c \in DOMAIN calls[i] :
               \A r \in {calls[i][c]} :
                  /\ r.usedBefore =
                        UNION {IdStrings(calls[i][b].picked) : b \in 1..(c - 1)}
                  /\ Len(r.candidates) =
                        Cardinality(Unused(allQuestions[i], r.mark,
                            UNION {IdStrings(calls[i][b].picked) : b \in 1..(c - 1)}))
            /\ usedIds[i] = IdStrings(AllPicked(i))
            /\ Paper(i).report.pickedCounts = AloneCounts(allQuestions[i])

\* two invocations were both suspended on the await, both finished, and a
\* question of the first one's paper is in the second one's paper too
C9_Witness ==
    \E i, k \in Invocations :
        /\ i # k
        /\ Answered(i) /\ Answered(k)
        /\ k \in concurrent[i]
        /\ Len(Paper(i).sections.B_part1) > 0
        /\ IdStrings(AllPicked(i)) \cap IdStrings(AllPicked(k)) # {}

\* C10: the paper's totals match its sections: meta.totalQuestions is the sum
\* of the four delivered counts, meta.totalMarks is 2*|sectionA| +
\* 2*|sectionB_part1| + 3*|sectionB_part2| + 5*|sectionC| and never exceeds
\* 80; with at least 15 two-mark, 5 three-mark and 7 five-mark questions the
\* paper has 10 questions in section A, 10 in section B and 7 in section C and
\* totalMarks is exactly 80.
C10_TotalsMatchSections ==
    \A i \in Invocations :
        Answered(i) =>
            \A p \in {Paper(i)} :
                /\ p.meta.totalQuestions =
                      Len(p.sections.A) + Len(p.sections.B_part1)
                        + Len(p.sections.B_part2) + Len(p.sections.C)
                /\ p.meta.totalMarks =
                      Num(2 * Len(p.sections.A) + 2 * Len(p.sections.B_part1)
                            + 3 * Len(p.sections.B_part2) + 5 * Len(p.sections.C))
                /\ p.meta.totalMarks.val <= 80
                /\ (/\ CountMarks(allQuestions[i], 2) >= 15
                    /\ CountMarks(allQuestions[i], 3) >= 5
                    /\ CountMarks(allQuestions[i], 5) >= 7)
                   => /\ Len(p.sections.A) = 10
                      /\ Len(p.sections.B) = 10
                      /\ Len(p.sections.C) = 7
                      /\ p.meta.totalMarks = Num(80)

\* a paper drawn from a pool with more than 15 two-mark, 5 three-mark and
\* 7 five-mark questions
C10_Witness ==
    \E i \in Invocations :
        /\ Answered(i)
        /\ CountMarks(allQuestions[i], 2) > 15
        /\ CountMarks(allQuestions[i], 3) >= 5
        /\ CountMarks(allQuestions[i], 5) >= 7
        /\ Paper(i).meta.totalMarks = Num(80)

====
